---- MODULE Spec2Model ----
(***************************************************************************)
(* Model of json_analys.py: the recursive structure walker                 *)
(* analyze_json_structure, the batch loop of analys_json_folder with its   *)
(* path -> type -> [files] index, generate_field_consistency_report and    *)
(* analyze_consistency.                                                    *)
(*                                                                         *)
(* A parsed JSON value is a record [kind, items]: kind is the Python type  *)
(* name (type(v).__name__), items is the sequence of its children as       *)
(* [key, val] records, in the container's iteration order.  A list's       *)
(* children carry the key "" (they have none), a scalar has no children.   *)
(* Scalars are modelled by their kind only: the code never looks at the    *)
(* content of a scalar.                                                    *)
(***************************************************************************)
EXTENDS Integers, Sequences, FiniteSets, TLC

VARIABLES
    json_files,      \* analys_json_folder: the files found by glob, in order
    idx,             \* analys_json_folder: position of the for loop
    field_types,     \* analys_json_folder: path -> type -> [file titles]
    all_files,       \* analys_json_folder: titles of the analysed files
    pc,              \* control point of the operation being run
    field_report,    \* data of generate_field_consistency_report's result
    all_results,     \* analyze_consistency: file -> analysis result
    level_report,    \* data of analyze_consistency's result
    w_ctx,           \* analyze_json_structure: which call this is
    w_data,          \* analyze_json_structure: argument data
    w_path,          \* analyze_json_structure: argument path
    w_result,        \* analyze_json_structure: argument result
    w_level,         \* analyze_json_structure: argument level
    w_out            \* analyze_json_structure: returned result

vars == <<json_files, idx, field_types, all_files, pc, field_report,
          all_results, level_report,
          w_ctx, w_data, w_path, w_result, w_level, w_out>>

folderVars == <<json_files, idx, field_types, all_files, field_report,
                all_results, level_report>>

walkVars == <<w_ctx, w_data, w_path, w_result, w_level, w_out>>

----------------------------------------------------------------------------
(* Bounds *)

MaxFiles == 3

MaxDepth == 2

MaxLen == 2

----------------------------------------------------------------------------
(* JSON values *)

None == [kind |-> "NoneType", items |-> <<>>]

Scalar(k) == [kind |-> k, items |-> <<>>]

Item(k, v) == [key |-> k, val |-> v]

Dict(its) == [kind |-> "dict", items |-> its]

List(vs) == [kind |-> "list", items |-> [n \in 1..Len(vs) |-> Item("", vs[n])]]

Max(a, b) == IF a >= b THEN a ELSE b

SeqsUpTo(S, n) == UNION {[1..m -> S] : m \in 0..n}

ScalarValues == {Scalar("int"), Scalar("str")}

TailValues == ScalarValues \cup {Dict(<<Item("a", Dict(<<>>))>>)}

RECURSIVE Values(_)
Values(d) ==
    IF d = 0 THEN ScalarValues
    ELSE LET sub == Values(d - 1)
         IN  sub \cup {Dict(<<>>), List(<<>>)}
                 \cup {Dict(<<Item("a", v)>>) : v \in sub}
                 \cup {List(<<v>> \o rest) :
                           v \in sub, rest \in SeqsUpTo(TailValues, MaxLen - 1)}

----------------------------------------------------------------------------
(* analyze_json_structure *)

NewResult == [fields |-> <<>>, types |-> <<>>, max_level |-> 0]

TypeName(value) == value.kind

IsContainer(value) == value.kind \in {"dict", "list"}

Inc(types, k) ==
    IF k \in DOMAIN types THEN [types EXCEPT ![k] = @ + 1]
    ELSE types @@ (k :> 1)

ChildPath(path, key) == IF path # "" THEN path \o "." \o key ELSE key

SamplePath(path) == path \o "[0]"

FieldInfo(p, t, l) == [path |-> p, type |-> t, level |-> l]

RecordField(result, value, current_path, level) ==
    [result EXCEPT !.fields = Append(@, FieldInfo(current_path, TypeName(value), level)),
                   !.types = Inc(@, TypeName(value))]

RecordSample_Counted(result, sample_item, sample_path, level) ==
    [result EXCEPT !.fields = Append(@, FieldInfo(sample_path, TypeName(sample_item), level)),
                   !.types = Inc(@, TypeName(sample_item))]

RecordSample(result, sample_item, sample_path, level) ==
    [result EXCEPT !.fields = Append(@, FieldInfo(sample_path, TypeName(sample_item), level))]

NestedLevel_Flat(level) == level

NestedLevel(level) == level + 1

RECURSIVE analyze_json_structure(_, _, _, _)
RECURSIVE DictLoop(_, _, _, _, _)

DictLoop(items, n, path, result, level) ==
    IF n > Len(items) THEN result
    ELSE LET value == items[n].val
             current_path == ChildPath(path, items[n].key)
             r1 == RecordField(result, value, current_path, level)
             r2 == IF IsContainer(value)
                   THEN analyze_json_structure(value, current_path, r1, NestedLevel(level))
                   ELSE r1
         IN  DictLoop(items, n + 1, path, r2, level)

ListBranch_Transparent(data, path, result, level) ==
    LET r1 == [result EXCEPT !.types = Inc(@, "list")]
    IN  IF data.items # <<>>
        THEN LET sample_item == data.items[1].val
                 sample_path == SamplePath(path)
                 r2 == RecordSample(r1, sample_item, sample_path, level)
             IN  IF IsContainer(sample_item)
                 THEN analyze_json_structure(sample_item, sample_path, r2, level)
                 ELSE r2
        ELSE r1

ListBranch(data, path, result, level) ==
    LET r1 == [result EXCEPT !.types = Inc(@, "list")]
    IN  IF data.items # <<>>
        THEN LET sample_item == data.items[1].val
                 sample_path == SamplePath(path)
                 r2 == RecordSample(r1, sample_item, sample_path, level)
             IN  IF IsContainer(sample_item)
                 THEN analyze_json_structure(sample_item, sample_path, r2, NestedLevel(level))
                 ELSE r2
        ELSE r1

analyze_json_structure(data, path, result, level) ==
    LET r0 == [result EXCEPT !.max_level = Max(@, level)]
    IN  IF data.kind = "dict" THEN DictLoop(data.items, 1, path, r0, level)
        ELSE IF data.kind = "list" THEN ListBranch(data, path, r0, level)
        ELSE r0

Analyze(data) == analyze_json_structure(data, "", NewResult, 0)

----------------------------------------------------------------------------
(* Documents of a batch *)

DocA == Dict(<<Item("a", Scalar("int")),
               Item("b", List(<<Dict(<<Item("c", Scalar("str"))>>)>>))>>)

DocB == Dict(<<Item("a", Scalar("int")),
               Item("b", List(<<Dict(<<Item("c", Scalar("int"))>>)>>))>>)

DocXStr == Dict(<<Item("x", Scalar("str"))>>)

DocXInt == Dict(<<Item("x", Scalar("int"))>>)

DocXStrEmptyKey == Dict(<<Item("x", Scalar("str")),
                          Item("", Dict(<<Item("x", Scalar("int"))>>))>>)

DocDottedKey == Dict(<<Item("a.b", Scalar("int")),
                       Item("a", Dict(<<Item("b", Scalar("str"))>>))>>)

DocIndexKey == Dict(<<Item("b", List(<<Scalar("int")>>)),
                      Item("b[0]", Scalar("str"))>>)

DocNestedLists == List(<<List(<<>>), Dict(<<Item("x", Dict(<<>>))>>)>>)

DocEmpty == Dict(<<>>)

DocScalar == Scalar("int")

Docs == {DocA, DocB, DocXStr, DocXInt, DocXStrEmptyKey, DocDottedKey,
         DocIndexKey, DocNestedLists, DocEmpty, DocScalar}

Titles == <<"f1", "f2", "f3", "f4", "f5">>

JsonFile(n, raises, data) == [title |-> Titles[n], raises |-> raises, data |-> data]

FileOutcomes == {[raises |-> FALSE, data |-> d] : d \in Docs}
                    \cup {[raises |-> TRUE, data |-> None]}

Batches ==
    UNION {{[n \in 1..m |-> JsonFile(n, o[n].raises, o[n].data)] : o \in [1..m -> FileOutcomes]}
              : m \in 0..MaxFiles}

----------------------------------------------------------------------------
(* analys_json_folder: folding one file's fields into field_types *)

AddField_Reset(ft, field_path, field_type, file_title) ==
    LET ft1 == IF field_path \notin DOMAIN ft
               THEN ft @@ (field_path :> <<>>) ELSE ft
        ft2 == [ft1 EXCEPT ![field_path] = (field_type :> <<>>)]
    IN  [ft2 EXCEPT ![field_path][field_type] = Append(@, file_title)]

AddField(ft, field_path, field_type, file_title) ==
    LET ft1 == IF field_path \notin DOMAIN ft
               THEN ft @@ (field_path :> <<>>) ELSE ft
        ft2 == IF field_type \notin DOMAIN ft1[field_path]
               THEN [ft1 EXCEPT ![field_path] = @ @@ (field_type :> <<>>)] ELSE ft1
    IN  [ft2 EXCEPT ![field_path][field_type] = Append(@, file_title)]

RECURSIVE FoldFields(_, _, _, _)
FoldFields(ft, fields, n, file_title) ==
    IF n > Len(fields) THEN ft
    ELSE FoldFields(AddField(ft, fields[n].path, fields[n].type, file_title),
                    fields, n + 1, file_title)

----------------------------------------------------------------------------
(* generate_field_consistency_report: the data the report is made of *)

NoFieldReport ==
    [found |-> FALSE, total_files |-> 0, total_fields |-> 0,
     consistent_fields |-> 0, inconsistent_fields |-> 0,
     rows |-> <<>>, details |-> <<>>]

generate_field_consistency_report_ByFiles(ft, files) ==
    IF DOMAIN ft = {} THEN NoFieldReport
    ELSE LET inconsistent ==
                 {p \in DOMAIN ft : \E t \in DOMAIN ft[p] : Len(ft[p][t]) > 1}
         IN  [found |-> TRUE,
              total_files |-> Len(files),
              total_fields |-> Cardinality(DOMAIN ft),
              consistent_fields |-> Cardinality(DOMAIN ft) - Cardinality(inconsistent),
              inconsistent_fields |-> Cardinality(inconsistent),
              rows |-> [p \in DOMAIN ft |->
                           [type_info |-> DOMAIN ft[p],
                            is_consistent |-> Cardinality(DOMAIN ft[p]) = 1]],
              details |-> [p \in inconsistent |-> ft[p]]]

generate_field_consistency_report(ft, files) ==
    IF DOMAIN ft = {} THEN NoFieldReport
    ELSE LET inconsistent == {p \in DOMAIN ft : Cardinality(DOMAIN ft[p]) > 1}
         IN  [found |-> TRUE,
              total_files |-> Len(files),
              total_fields |-> Cardinality(DOMAIN ft),
              consistent_fields |-> Cardinality(DOMAIN ft) - Cardinality(inconsistent),
              inconsistent_fields |-> Cardinality(inconsistent),
              rows |-> [p \in DOMAIN ft |->
                           [type_info |-> DOMAIN ft[p],
                            is_consistent |-> Cardinality(DOMAIN ft[p]) = 1]],
              details |-> [p \in inconsistent |-> ft[p]]]

----------------------------------------------------------------------------
(* analyze_consistency: the data the report is made of *)

NoLevelReport ==
    [found |-> FALSE, max_levels |-> <<>>, is_level_consistent |-> FALSE,
     type_counts |-> <<>>, type_consistency |-> <<>>]

TypeCount(types, type_name) ==
    IF type_name \in DOMAIN types THEN types[type_name] ELSE 0

analyze_consistency_PresentOnly(results) ==
    IF DOMAIN results = {} THEN NoLevelReport
    ELSE LET max_levels == [file \in DOMAIN results |-> results[file].max_level]
             type_stats == [file \in DOMAIN results |-> results[file].types]
             all_types == UNION {DOMAIN type_stats[file] : file \in DOMAIN results}
             type_counts == [type_name \in all_types |->
                                [file \in DOMAIN results |->
                                    TypeCount(type_stats[file], type_name)]]
         IN  [found |-> TRUE,
              max_levels |-> max_levels,
              is_level_consistent |->
                  Cardinality({max_levels[file] : file \in DOMAIN results}) = 1,
              type_counts |-> type_counts,
              type_consistency |->
                  [type_name \in all_types |->
                      ~ (Cardinality({type_counts[type_name][file] :
                                         file \in {f \in DOMAIN results :
                                                      type_name \in DOMAIN type_stats[f]}}) > 1)]]

analyze_consistency_ByKeys(results) ==
    IF DOMAIN results = {} THEN NoLevelReport
    ELSE LET max_levels == [file \in DOMAIN results |-> results[file].max_level]
             type_stats == [file \in DOMAIN results |-> results[file].types]
             all_types == UNION {DOMAIN type_stats[file] : file \in DOMAIN results}
             type_counts == [type_name \in all_types |->
                                [file \in DOMAIN results |->
                                    TypeCount(type_stats[file], type_name)]]
         IN  [found |-> TRUE,
              max_levels |-> max_levels,
              is_level_consistent |->
                  Cardinality(DOMAIN max_levels) = 1,
              type_counts |-> type_counts,
              type_consistency |->
                  [type_name \in all_types |->
                      ~ (Cardinality({type_counts[type_name][file] :
                                         file \in DOMAIN results}) > 1)]]

analyze_consistency(results) ==
    IF DOMAIN results = {} THEN NoLevelReport
    ELSE LET max_levels == [file \in DOMAIN results |-> results[file].max_level]
             type_stats == [file \in DOMAIN results |-> results[file].types]
             all_types == UNION {DOMAIN type_stats[file] : file \in DOMAIN results}
             type_counts == [type_name \in all_types |->
                                [file \in DOMAIN results |->
                                    TypeCount(type_stats[file], type_name)]]
         IN  [found |-> TRUE,
              max_levels |-> max_levels,
              is_level_consistent |->
                  Cardinality({max_levels[file] : file \in DOMAIN results}) = 1,
              type_counts |-> type_counts,
              type_consistency |->
                  [type_name \in all_types |->
                      ~ (Cardinality({type_counts[type_name][file] :
                                         file \in DOMAIN results}) > 1)]]

AnalysedFiles(files) == {n \in 1..Len(files) : ~ files[n].raises}

ResultsOf(files) ==
    [title \in {files[n].title : n \in AnalysedFiles(files)} |->
        Analyze(files[CHOOSE n \in AnalysedFiles(files) : files[n].title = title].data)]

----------------------------------------------------------------------------
(* analys_json_folder, followed by analyze_consistency over the results of *)
(* the files that were analysed                                            *)

WalkIdle ==
    /\ w_ctx = "none"
    /\ w_data = None
    /\ w_path = ""
    /\ w_result = NewResult
    /\ w_level = 0
    /\ w_out = NewResult

Init ==
    /\ json_files \in Batches
    /\ idx = 1
    /\ field_types = <<>>
    /\ all_files = <<>>
    /\ pc = "start"
    /\ field_report = NoFieldReport
    /\ all_results = <<>>
    /\ level_report = NoLevelReport
    /\ WalkIdle

NoFiles ==
    /\ pc = "start"
    /\ json_files = <<>>
    /\ pc' = "returned"
    /\ UNCHANGED <<folderVars, walkVars>>

StartLoop ==
    /\ pc = "start"
    /\ json_files # <<>>
    /\ field_types' = <<>>
    /\ all_files' = <<>>
    /\ idx' = 1
    /\ pc' = "loop"
    /\ UNCHANGED <<json_files, field_report, all_results, level_report, walkVars>>

AnalyseFile ==
    /\ pc = "loop"
    /\ idx <= Len(json_files)
    /\ ~ json_files[idx].raises
    /\ LET file_result == Analyze(json_files[idx].data)
           file_title == json_files[idx].title
       IN  /\ all_files' = Append(all_files, file_title)
           /\ field_types' = FoldFields(field_types, file_result.fields, 1, file_title)
    /\ idx' = idx + 1
    /\ UNCHANGED <<json_files, pc, field_report, all_results, level_report, walkVars>>

FileRaises_Abort ==
    /\ pc = "loop"
    /\ idx <= Len(json_files)
    /\ json_files[idx].raises
    /\ idx' = Len(json_files) + 1
    /\ UNCHANGED <<json_files, field_types, all_files, pc, field_report,
                   all_results, level_report, walkVars>>

FileRaises ==
    /\ pc = "loop"
    /\ idx <= Len(json_files)
    /\ json_files[idx].raises
    /\ idx' = idx + 1
    /\ UNCHANGED <<json_files, field_types, all_files, pc, field_report,
                   all_results, level_report, walkVars>>

WriteReport ==
    /\ pc = "loop"
    /\ idx > Len(json_files)
    /\ field_report' = generate_field_consistency_report(field_types, all_files)
    /\ pc' = "reported"
    /\ UNCHANGED <<json_files, idx, field_types, all_files, all_results,
                   level_report, walkVars>>

AnalyzeConsistency ==
    /\ pc = "reported"
    /\ all_results' = ResultsOf(json_files)
    /\ level_report' = analyze_consistency(all_results')
    /\ pc' = "done"
    /\ UNCHANGED <<json_files, idx, field_types, all_files, field_report, walkVars>>

Next ==
    \/ NoFiles
    \/ StartLoop
    \/ AnalyseFile
    \/ FileRaises
    \/ WriteReport
    \/ AnalyzeConsistency

Spec == Init /\ [][Next]_vars

----------------------------------------------------------------------------
(* One call of analyze_json_structure: the top-level call, or the nested   *)
(* call made for the value of key "a" of a top-level mapping (line 43), or *)
(* the nested call made for the first element of a top-level list (line 62)*)

WalkValues == Values(MaxDepth) \cup Docs

DictValueResult(data) == RecordField(NewResult, data, "a", 0)

ListSampleResult(data) ==
    RecordSample([NewResult EXCEPT !.types = Inc(@, "list")], data, "[0]", 0)

FolderIdle ==
    /\ json_files = <<>>
    /\ idx = 1
    /\ field_types = <<>>
    /\ all_files = <<>>
    /\ field_report = NoFieldReport
    /\ all_results = <<>>
    /\ level_report = NoLevelReport

InitWalk ==
    /\ FolderIdle
    /\ pc = "call"
    /\ w_data \in WalkValues
    /\ w_ctx \in {"top", "dict_value", "list_sample"}
    /\ w_ctx # "top" => IsContainer(w_data)
    /\ w_path = CASE w_ctx = "top" -> ""
                  [] w_ctx = "dict_value" -> "a"
                  [] w_ctx = "list_sample" -> "[0]"
    /\ w_result = CASE w_ctx = "top" -> NewResult
                    [] w_ctx = "dict_value" -> DictValueResult(w_data)
                    [] w_ctx = "list_sample" -> ListSampleResult(w_data)
    /\ w_level = IF w_ctx = "top" THEN 0 ELSE 1
    /\ w_out = NewResult

Call ==
    /\ pc = "call"
    /\ w_out' = analyze_json_structure(w_data, w_path, w_result, w_level)
    /\ pc' = "returned"
    /\ UNCHANGED <<folderVars, w_ctx, w_data, w_path, w_result, w_level>>

NextWalk == Call

SpecWalk == InitWalk /\ [][NextWalk]_vars

----------------------------------------------------------------------------
(* Depth of a tree *)

SetMax(S) == IF S = {} THEN 0 ELSE CHOOSE m \in S : \A n \in S : m >= n

RECURSIVE MappingNesting(_)
MappingNesting(value) ==
    SetMax({(IF value.items[n].val.kind = "dict" THEN 1 ELSE 0)
                + MappingNesting(value.items[n].val) : n \in 1..Len(value.items)})

RECURSIVE SampledNesting(_)
SampledNesting(value) ==
    LET followed == IF value.kind = "list" THEN 1..Len(value.items) \cap {1}
                    ELSE 1..Len(value.items)
    IN  SetMax({1 + SampledNesting(value.items[n].val) :
                   n \in {m \in followed : IsContainer(value.items[m].val)}})

AllKinds == {"dict", "list", "str", "int", "float", "bool", "NoneType"}

CountOrZero(counts, k) == IF k \in DOMAIN counts THEN counts[k] ELSE 0

----------------------------------------------------------------------------
C9_SequenceCall ==
    (pc = "returned" /\ w_data.kind = "list") =>
        IF w_data.items = <<>>
        THEN /\ w_out.fields = w_result.fields
             /\ \A k \in AllKinds :
                    CountOrZero(w_out.types, k) =
                        CountOrZero(w_result.types, k) + (IF k = "list" THEN 1 ELSE 0)
        ELSE LET first == w_data.items[1].val
                 nested == IF IsContainer(first)
                           THEN analyze_json_structure(first, w_path \o "[0]",
                                                       NewResult, w_level + 1)
                           ELSE NewResult
             IN  /\ w_out.fields =
                        w_result.fields
                            \o <<[path |-> w_path \o "[0]", type |-> first.kind,
                                  level |-> w_level]>>
                            \o nested.fields
                 /\ \A k \in AllKinds :
                        CountOrZero(w_out.types, k) =
                            CountOrZero(w_result.types, k)
                                + (IF k = "list" THEN 1 ELSE 0)
                                + CountOrZero(nested.types, k)
                 /\ w_out = analyze_json_structure(List(<<first>>), w_path,
                                                   w_result, w_level)

C9_Witness ==
    /\ pc = "returned"
    /\ w_ctx = "dict_value"
    /\ w_data.kind = "list"
    /\ Len(w_data.items) = 2
    /\ w_data.items[1].val.kind = "int"
    /\ w_data.items[2].val.kind = "dict"
    /\ Len(w_out.fields) = 2
    /\ w_out.fields[2] = [path |-> "a[0]", type |-> "int", level |-> 1]

----------------------------------------------------------------------------
(* Claims about the batch *)

Folded == pc \in {"reported", "done"}

AllLoaded == \A n \in 1..Len(json_files) : ~ json_files[n].raises

HasField(doc, key, kind) ==
    /\ doc.kind = "dict"
    /\ \E n \in 1..Len(doc.items) :
           doc.items[n].key = key /\ doc.items[n].val.kind = kind

Occurrences(seq, e) == Cardinality({n \in 1..Len(seq) : seq[n] = e})

IsPrefix(s, t) == Len(s) <= Len(t) /\ SubSeq(t, 1, Len(s)) = s

(* C2: in the field consistency report a path is marked consistent iff     *)
(* field_types holds exactly one kind for it, however many files contain   *)
(* it, and total fields = number of paths = consistent + inconsistent.     *)
C2_ReportCounts ==
    (Folded /\ field_report.found) =>
        /\ DOMAIN field_report.rows = DOMAIN field_types
        /\ \A p \in DOMAIN field_types :
               field_report.rows[p].is_consistent
                   <=> Cardinality(DOMAIN field_types[p]) = 1
        /\ field_report.total_fields = Cardinality(DOMAIN field_types)
        /\ field_report.consistent_fields =
               Cardinality({p \in DOMAIN field_types :
                               field_report.rows[p].is_consistent})
        /\ field_report.inconsistent_fields =
               Cardinality({p \in DOMAIN field_types :
                               ~ field_report.rows[p].is_consistent})
        /\ field_report.total_fields =
               field_report.consistent_fields + field_report.inconsistent_fields

C2_Witness ==
    /\ Folded
    /\ field_report.found
    /\ field_report.total_files = 3
    /\ field_report.inconsistent_fields = 1
    /\ field_report.consistent_fields = 4
    /\ {"x", "a"} \subseteq DOMAIN field_types
    /\ ~ field_report.rows["x"].is_consistent
    /\ field_report.rows["a"].is_consistent
    /\ Len(field_types["a"]["int"]) = 1

(* C3: for every kind that appears in the types of some document,          *)
(* type_consistency[kind] is true iff every document has the same count of *)
(* that kind, a document without the kind counting as 0.                   *)
C3_TypeConsistency ==
    (pc = "done" /\ level_report.found) =>
        LET kinds == UNION {DOMAIN all_results[f].types : f \in DOMAIN all_results}
        IN  /\ DOMAIN level_report.type_consistency = kinds
            /\ \A k \in kinds :
                   level_report.type_consistency[k]
                       <=> \A f, g \in DOMAIN all_results :
                               CountOrZero(all_results[f].types, k)
                                   = CountOrZero(all_results[g].types, k)

C3_Witness ==
    /\ pc = "done"
    /\ level_report.found
    /\ Cardinality(DOMAIN all_results) = 2
    /\ "dict" \in DOMAIN all_results["f1"].types
    /\ "dict" \notin DOMAIN all_results["f2"].types
    /\ "int" \in DOMAIN all_results["f1"].types \cap DOMAIN all_results["f2"].types
    /\ all_results["f1"].types["int"] = all_results["f2"].types["int"]
    /\ ~ level_report.type_consistency["dict"]
    /\ level_report.type_consistency["int"]

(* C4: for a non-empty batch is_level_consistent is true iff all documents *)
(* have the same max_level; a batch of one document is level-consistent.   *)
C4_LevelConsistency ==
    (pc = "done" /\ level_report.found) =>
        /\ level_report.is_level_consistent
               <=> \A f, g \in DOMAIN all_results :
                       all_results[f].max_level = all_results[g].max_level
        /\ Cardinality(DOMAIN all_results) = 1 => level_report.is_level_consistent

C4_Witness ==
    /\ pc = "done"
    /\ level_report.found
    /\ Cardinality(DOMAIN all_results) = 3
    /\ all_results["f1"].max_level = 2
    /\ all_results["f2"].max_level = 2
    /\ all_results["f3"].max_level = 2
    /\ level_report.is_level_consistent

(* C5: when exactly one document has field "x" as a string and every other *)
(* document has it as an integer, path "x" ends with exactly the kinds str *)
(* and int, and every file title is in exactly one of the two lists, once. *)
C5_KindListsPartitionBatch ==
    (/\ Folded
     /\ AllLoaded
     /\ Len(json_files) >= 2
     /\ Cardinality({n \in 1..Len(json_files) : HasField(json_files[n].data, "x", "str")}) = 1
     /\ \A n \in 1..Len(json_files) :
            \/ HasField(json_files[n].data, "x", "str")
            \/ HasField(json_files[n].data, "x", "int"))
        =>
        /\ "x" \in DOMAIN field_types
        /\ DOMAIN field_types["x"] = {"str", "int"}
        /\ ~ field_report.rows["x"].is_consistent
        /\ \A n \in 1..Len(json_files) :
               /\ Occurrences(field_types["x"]["str"], json_files[n].title)
                      + Occurrences(field_types["x"]["int"], json_files[n].title) = 1
               /\ HasField(json_files[n].data, "x", "str")
                      => Occurrences(field_types["x"]["str"], json_files[n].title) = 1

(* C6: a batch of identical documents has no inconsistent path, consistent *)
(* levels and every kind consistent.                                       *)
C6_IdenticalDocuments ==
    (/\ pc = "done"
     /\ AllLoaded
     /\ \A m, n \in 1..Len(json_files) : json_files[m].data = json_files[n].data)
        =>
        /\ \A p \in DOMAIN field_types : Cardinality(DOMAIN field_types[p]) = 1
        /\ field_report.inconsistent_fields = 0
        /\ level_report.is_level_consistent
        /\ \A k \in DOMAIN level_report.type_consistency :
               level_report.type_consistency[k]

(* C7: for the batch A = {"a": 1, "b": [{"c": "x"}]}, B = {"a": 2, "b":    *)
(* [{"c": 3}]}: a, b and b[0] are consistent (int, list, dict) in both     *)
(* files, b[0].c is inconsistent (str in A, int in B), max_level is 2 for  *)
(* both, str is inconsistent with counts 1 and 0, int with counts 1 and 2. *)
C7_Scenario ==
    (pc = "done" /\ json_files = <<JsonFile(1, FALSE, DocA), JsonFile(2, FALSE, DocB)>>)
        =>
        /\ DOMAIN field_types = {"a", "b", "b[0]", "b[0].c"}
        /\ field_types["a"] = ("int" :> <<"f1", "f2">>)
        /\ field_types["b"] = ("list" :> <<"f1", "f2">>)
        /\ field_types["b[0]"] = ("dict" :> <<"f1", "f2">>)
        /\ field_types["b[0].c"] = ("str" :> <<"f1">>) @@ ("int" :> <<"f2">>)
        /\ field_report.rows["a"].is_consistent
        /\ field_report.rows["b"].is_consistent
        /\ field_report.rows["b[0]"].is_consistent
        /\ ~ field_report.rows["b[0].c"].is_consistent
        /\ level_report.max_levels = ("f1" :> 2) @@ ("f2" :> 2)
        /\ level_report.is_level_consistent
        /\ ~ level_report.type_consistency["str"]
        /\ level_report.type_counts["str"] = ("f1" :> 1) @@ ("f2" :> 0)
        /\ ~ level_report.type_consistency["int"]
        /\ level_report.type_counts["int"] = ("f1" :> 1) @@ ("f2" :> 2)

C7_Witness ==
    /\ pc = "done"
    /\ json_files = <<JsonFile(1, FALSE, DocA), JsonFile(2, FALSE, DocB)>>
    /\ level_report.found
    /\ field_report.inconsistent_fields = 1

RECURSIVE FoldDocuments(_, _)
FoldDocuments(ft, files) ==
    IF files = <<>> THEN ft
    ELSE FoldDocuments(FoldFields(ft, Analyze(Head(files).data).fields, 1,
                                  Head(files).title),
                       Tail(files))

Loaded(f) == ~ f.raises

(* C8: a file that raises adds nothing and does not stop the loop: at any  *)
(* point field_types and all_files are what folding only the files that    *)
(* did not raise, in the same order, produces, and the loop ends only      *)
(* after the last file.                                                    *)
C8_FailuresAreSkipped ==
    (pc \in {"loop", "reported", "done"}) =>
        LET succeeded == SelectSeq(SubSeq(json_files, 1, idx - 1), Loaded)
        IN  /\ field_types = FoldDocuments(<<>>, succeeded)
            /\ all_files = [n \in 1..Len(succeeded) |-> succeeded[n].title]
            /\ pc # "loop" => idx = Len(json_files) + 1

C8_Witness ==
    /\ pc = "done"
    /\ Len(json_files) = 3
    /\ json_files[1].raises
    /\ ~ json_files[2].raises
    /\ json_files[3].raises
    /\ all_files = <<"f2">>
    /\ DOMAIN field_types # {}

(* C10: a fold never removes anything from field_types: every path, every  *)
(* kind of a path and every file of a kind is still there after any step,  *)
(* so a path with more than one kind keeps more than one kind.             *)
C10_FieldTypesGrow ==
    [][\A p \in DOMAIN field_types :
           /\ p \in DOMAIN field_types'
           /\ \A k \in DOMAIN field_types[p] :
                  /\ k \in DOMAIN field_types'[p]
                  /\ IsPrefix(field_types[p][k], field_types'[p][k])]_vars

C10_Witness ==
    /\ pc = "loop"
    /\ idx = 3
    /\ Len(json_files) = 3
    /\ ~ json_files[3].raises
    /\ "x" \in DOMAIN field_types
    /\ DOMAIN field_types["x"] = {"str", "int"}
    /\ HasField(json_files[3].data, "x", "int")


====
